---- MODULE Spec2Model ----
(***************************************************************************)
(* The scroll-triggered pagination widget InfiniteScrollExtend, in its two *)
(* versions: src/src/IS.tsx (definitions prefixed IS_) and                 *)
(* src/unnamed/part_000 (definitions prefixed P0_).                        *)
(*                                                                         *)
(* One behaviour follows one widget instance of one version: it is         *)
(* mounted, re-rendered with new props, receives DOM events and is         *)
(* unmounted.  A render, the cleanups of the effects it re-runs and those   *)
(* effects form one step (React flushes them in one turn, cleanups first,  *)
(* then effects in declaration order); the dispatch of one DOM event to    *)
(* the listeners registered for it is one step.                            *)
(*                                                                         *)
(* Every render creates a closure: its props, its own scrollListener and   *)
(* mousewheelListener function objects and, in IS.tsx, its own `let`       *)
(* variables.  A closure is named by the number of the render that made    *)
(* it.  A registered listener is a record of the event type, the target    *)
(* and the closure the function belongs to; removeEventListener removes    *)
(* exactly the record it names, and addEventListener of a record already   *)
(* present adds nothing.  The listener options are computed once (useMemo  *)
(* with no dependencies), so every add and remove of an instance uses the  *)
(* same capture flag; useCapture, element and the forwarded props are      *)
(* left out.                                                               *)
(*                                                                         *)
(* The DOM geometry is the environment's: each step that reads it is       *)
(* given a geometry record g.  During cleanups the container element and   *)
(* its parent are still in place (effect cleanups on unmount run before    *)
(* the host node is removed).                                              *)
(***************************************************************************)
EXTENDS Integers, Sequences, FiniteSets

\* ---------------------------------------------------------------- bounds
MaxRenders == 3
MaxPage == 2

\* ------------------------------------------------------ program constants
DefaultThreshold == 250

\* ------------------------------------------------------------------ DOM
Null == "null"
Window == "window"
Parent == "parent"        \* the container's parentNode
Other == "other"          \* an element a getScrollParent override returns
Targets == {Window, Parent, Other}
EventTypes == {"mousewheel", "scroll", "resize"}

Impls == {"IS", "part_000"}
NoFn == "none"
Callbacks == {"f"}

\* What the caller's getScrollParent does: not supplied (or returning null,
\* which both versions treat alike), or returns the element Other.
ScrollParentOverrides == {"absent", "returnsOther"}

PageStarts == {-1, 0, 1}
Thresholds == {DefaultThreshold}

PropsSet ==
  [hasMore : BOOLEAN, initialLoad : BOOLEAN, isReverse : BOOLEAN,
   pageStart : PageStarts, threshold : Thresholds, useWindow : BOOLEAN,
   loader : {TRUE}, loadMore : Callbacks \cup {NoFn},
   getScrollParent : ScrollParentOverrides]

\* Props a widget is mounted with.  A caller passes a getScrollParent
\* override when it mounts the widget for container scrolling; useWindow may
\* still change in a later render.
MountProps ==
  {p \in PropsSet : p.getScrollParent = "returnsOther" => ~p.useWindow}

\* Geometry the environment presents to a handler: window.pageYOffset and
\* innerHeight, the container's offsetTop, offsetHeight and scrollHeight, its
\* offsetParent's offsetTop, the scrollTop and clientHeight of Parent and of
\* Other, and whether the container's offsetParent is non-null (visible).
\* The window and the elements are scrolled to different positions, so that
\* a handler reading the wrong one computes another offset; in each mode the
\* offsets met are 249, 250 and 251 (with Other, 1 off).  At the lowest
\* window position the content and the scrollable regions are one pixel
\* taller, so that the container's scroll height differs between steps.
ScrollPositions == {249, 250, 251}
Scene(y, v) ==
  LET grown == IF y = 251 THEN 1 ELSE 0 IN
  [scrollY |-> y, innerHeight |-> 600, elOffsetTop |-> 20,
   parentOffsetTop |-> 30, elOffsetHeight |-> 1050,
   elScrollHeight |-> 1050 + grown,
   parentScrollTop |-> 500 - y, otherScrollTop |-> 501 - y,
   parentClientHeight |-> 550 + grown, otherClientHeight |-> 550 + grown,
   visible |-> v]
Geometries ==
  {Scene(y, TRUE) : y \in ScrollPositions} \cup {Scene(250, FALSE)}

\* A container element that is in no document: it has no parent node and no
\* offsetParent, and its offsetTop is 0.
Detached == "detached"
ParentNode(e) == IF e = "el" THEN Parent ELSE Null

OffsetTop(e, g) ==
  IF e = "el" THEN g.elOffsetTop
  ELSE IF e = Detached THEN 0 ELSE g.parentOffsetTop
OffsetParent(e, g) == IF e = "el" /\ g.visible THEN Parent ELSE Null
ScrollTopOf(t, g) == IF t = Parent THEN g.parentScrollTop ELSE g.otherScrollTop
ClientHeightOf(t, g) ==
  IF t = Parent THEN g.parentClientHeight ELSE g.otherClientHeight

\* A registered listener: fn is the closure (render number) whose
\* scrollListener (types scroll, resize) or mousewheelListener it is.
Listener(type, target, k) == [type |-> type, target |-> target, fn |-> k]
ScrollListeners(target, k) ==
  {Listener("scroll", target, k), Listener("resize", target, k)}

Closures == 1..MaxRenders

\* The children array a render returns.
childrenArray(p) ==
  IF p.hasMore /\ p.loader
    THEN IF p.isReverse THEN <<"loader", "children">>
                        ELSE <<"children", "loader">>
    ELSE <<"children">>

VARIABLES
  impl,               \* which version this instance runs
  phase,              \* "init", "mounted", "unmounted"
  nRenders,           \* renders committed so far; the current closure
  props,              \* props of the most recently committed render
  closures,           \* closure -> its props (closures still referenced)
  effClosure,         \* closure in which the [pageStart] effect last ran
  scrollComponentRef, \* the container element, or Null
  listeners,          \* the listeners registered on the DOM targets
  pageLoaded,         \* IS.tsx: closure -> its `let pageLoaded`
  isLoadMore,         \* IS.tsx: closure -> its `let isLoadMore`
  pageLoadedRef,      \* part_000: pageLoadedRef.current
  isLoadMoreRef,      \* part_000: isLoadMoreRef.current
  beforeSizeRef,      \* part_000: beforeSizeRef.current
  scrollContainerRef, \* part_000: scrollContainerRef.current
  last,               \* what the last step did (trigger checks, writes)
  lastArg,            \* the last argument passed to loadMore since the last
                      \* (re-)initialization, 0 if there was no call
  snapshot            \* part_000: what the last trigger that ran in reverse
                      \* mode since the last scroll write saw, or NoSnap

vars ==
  <<impl, phase, nRenders, props, closures, effClosure, scrollComponentRef,
    listeners, pageLoaded, isLoadMore, pageLoadedRef, isLoadMoreRef,
    beforeSizeRef, scrollContainerRef, last, lastArg, snapshot>>

\* The mutable state the handlers of one step thread through, with the
\* trigger checks and scroll writes the step has made so far.
Machine ==
  [listeners |-> listeners, pageLoaded |-> pageLoaded,
   isLoadMore |-> isLoadMore, pageLoadedRef |-> pageLoadedRef,
   isLoadMoreRef |-> isLoadMoreRef, beforeSizeRef |-> beforeSizeRef,
   scrollContainerRef |-> scrollContainerRef, checks |-> <<>>,
   writes |-> <<>>]

\* One run of scrollListener, as the step's record keeps it: the closure
\* whose listener ran and the callback it holds, the offset it computed and
\* the threshold it compared it with, whether the container was visible,
\* whether the trigger condition held, whether the callback was invoked, the
\* page counter before the run and the argument passed (0 if none was), the
\* isReverse and useWindow the closure holds, the container's scroll height
\* at the run and the geometry the run read, and whether a scroll or resize
\* listener of the widget was registered when the run reached the loadMore
\* call (ls being the listeners registered then).
Check(k, offset, c, g, trigger, before, ls) ==
  [closure |-> k, loadMore |-> c.loadMore, offset |-> offset,
   threshold |-> c.threshold, visible |-> g.visible, trigger |-> trigger,
   isReverse |-> c.isReverse, useWindow |-> c.useWindow,
   scrollHeight |-> g.elScrollHeight, scene |-> g,
   called |-> trigger /\ c.loadMore # NoFn, before |-> before,
   raised |-> FALSE,
   listening |-> \E l \in ls : l.type \in {"scroll", "resize"},
   arg |-> IF trigger /\ c.loadMore # NoFn THEN before + 1 ELSE 0]

\* A run of scrollListener that ended in a TypeError (a property read off
\* null) before it compared an offset.
RaisedCheck(k, c, g, before) ==
  [Check(k, 0, c, g, FALSE, before, {}) EXCEPT !.raised = TRUE]

\* The arguments loadMore was called with, in order, in a sequence of checks.
RECURSIVE Args(_)
Args(checks) ==
  IF checks = <<>> THEN <<>>
  ELSE (IF Head(checks).called THEN <<Head(checks).arg>> ELSE <<>>)
         \o Args(Tail(checks))

\* What the last trigger in checks that ran with isReverse=true saw: the
\* container's scroll height, the offset it computed and whether it invoked
\* loadMore; old if there is no such trigger.
NoSnap == [scrollHeight |-> -1, offset |-> -1, called |-> FALSE]
RECURSIVE SnapAfter(_, _)
SnapAfter(checks, old) ==
  IF checks = <<>> THEN old
  ELSE LET c == Head(checks) IN
       SnapAfter(Tail(checks),
                 IF c.trigger /\ c.isReverse
                   THEN [scrollHeight |-> c.scrollHeight, offset |-> c.offset,
                         called |-> c.called]
                   ELSE old)

\* ------------------------------------------------------------ src/src/IS.tsx

RECURSIVE IS_calculateTopPosition(_, _)
IS_calculateTopPosition(el, g) ==
  IF el = Null THEN 0
  ELSE OffsetTop(el, g) + IS_calculateTopPosition(OffsetParent(el, g), g)

IS_calculateOffset(el, scrollTop, g) ==
  IF el = Null THEN 0
  ELSE IS_calculateTopPosition(el, g)
         + (g.elOffsetHeight - scrollTop - g.innerHeight)

\* A getParentElement that ignores the caller's override; C14 and C15
\* distinguish it from the code's.
IS_getParentElement_noOverride(c, el) ==
  IF el = Null THEN Null ELSE ParentNode(el)

IS_getParentElement(c, el) ==
  IF c.getScrollParent = "returnsOther" THEN Other
  ELSE IF el = Null THEN Null ELSE ParentNode(el)

IS_offset(c, el, g) ==
  LET parentNode == IS_getParentElement(c, el) IN
  IF c.useWindow
    THEN IF c.isReverse THEN g.scrollY
         ELSE IS_calculateOffset(el, g.scrollY, g)
    ELSE IF c.isReverse /\ parentNode # Null THEN ScrollTopOf(parentNode, g)
         ELSE g.elScrollHeight - ScrollTopOf(parentNode, g)
                - ClientHeightOf(parentNode, g)

\* A detachScrollListener that removes nothing; C19 distinguishes it from the
\* code's.
IS_detachScrollListener_none(m, k, c, el) == m

IS_detachScrollListener(m, k, c, el) ==
  LET parentElement == IS_getParentElement(c, el)
      scrollEl == IF c.useWindow = FALSE /\ parentElement # Null
                    THEN parentElement ELSE Window
  IN [m EXCEPT !.listeners = @ \ ScrollListeners(scrollEl, k)]

IS_detachMousewheelListener(m, k, c, el) ==
  LET scrollEl == IF c.useWindow = FALSE /\ el # Null /\ ParentNode(el) # Null
                    THEN ParentNode(el) ELSE Window
  IN [m EXCEPT !.listeners = @ \ {Listener("mousewheel", scrollEl, k)}]

IS_trigger(offset, c, el, g) ==
  offset < c.threshold /\ el # Null /\ OffsetParent(el, g) # Null

\* The container-scrolled branches read el.scrollHeight and
\* parentNode.scrollTop: a TypeError if the one read is null.
IS_raises(c, el) ==
  LET parentNode == IS_getParentElement(c, el) IN
  /\ ~c.useWindow
  /\ ~(c.isReverse /\ parentNode # Null)
  /\ (el = Null \/ parentNode = Null)

IS_scrollListener(m, k, c, el, g) ==
  LET offset == IS_offset(c, el, g)
      trigger == IS_trigger(offset, c, el, g)
      m1 == IF trigger THEN IS_detachScrollListener(m, k, c, el) ELSE m
      m2 == IF trigger /\ c.loadMore # NoFn
              THEN [m1 EXCEPT !.pageLoaded[k] = @ + 1, !.isLoadMore[k] = TRUE]
              ELSE m1
  IN IF IS_raises(c, el)
       THEN [m EXCEPT !.checks =
               Append(@, RaisedCheck(k, c, g, m.pageLoaded[k]))]
       ELSE [m2 EXCEPT !.checks =
               Append(@, Check(k, offset, c, g, trigger, m.pageLoaded[k],
                               m1.listeners))]

IS_attachScrollListener(m, k, c, el, g) ==
  LET parentElement == IS_getParentElement(c, el)
      scrollEl == IF c.useWindow = FALSE /\ parentElement # Null
                    THEN parentElement ELSE Window
      m1 == [m EXCEPT !.listeners =
               @ \cup {Listener("mousewheel", scrollEl, k)}
                 \cup ScrollListeners(scrollEl, k)]
  IN IF ~c.hasMore \/ parentElement = Null THEN m
     ELSE IF c.initialLoad THEN IS_scrollListener(m1, k, c, el, g) ELSE m1

\* The cleanup both effects return.
IS_cleanup(m, k, c, el) ==
  IS_detachMousewheelListener(IS_detachScrollListener(m, k, c, el), k, c, el)

\* useEffect(..., [pageStart])
IS_effectPageStart(m, k, c, el, g) ==
  IS_attachScrollListener(
    [m EXCEPT !.pageLoaded[k] = IF c.pageStart = -1 THEN 0 ELSE c.pageStart],
    k, c, el, g)

\* useEffect(...) without dependencies: after every render
IS_effectEveryRender(m, k, c, el, g) == IS_attachScrollListener(m, k, c, el, g)

\* ------------------------------------------------------ src/unnamed/part_000

RECURSIVE P0_calculateTopPosition(_, _)
P0_calculateTopPosition(el, g) ==
  IF el = Null THEN 0
  ELSE OffsetTop(el, g) + P0_calculateTopPosition(OffsetParent(el, g), g)

P0_calculateOffset(el, scrollTop, g) ==
  IF el = Null THEN 0
  ELSE P0_calculateTopPosition(el, g)
         + (g.elOffsetHeight - scrollTop - g.innerHeight)

P0_getParentElement(c, el) ==
  IF c.getScrollParent = "returnsOther" THEN Other
  ELSE IF el = Null THEN Null ELSE ParentNode(el)

\* The offset scrollListener computes.  win and parentNode are both
\* scrollContainerRef.current; read off an element, pageYOffset is undefined
\* and the document's scrollTop (the window's scroll position) is used.
P0_offset(m, c, el, g) ==
  LET parentNode == m.scrollContainerRef IN
  IF c.useWindow
    THEN IF c.isReverse THEN g.scrollY
         ELSE P0_calculateOffset(el, g.scrollY, g)
    ELSE IF c.isReverse THEN ScrollTopOf(parentNode, g)
         ELSE g.elScrollHeight - ScrollTopOf(parentNode, g)
                - ClientHeightOf(parentNode, g)

\* Read off the window, scrollTop and clientHeight are undefined and the
\* offset is no number: no comparison with it holds.
P0_offsetIsNumber(m, c) == c.useWindow \/ m.scrollContainerRef # Window

P0_trigger(m, offset, c, el, g) ==
  /\ P0_offsetIsNumber(m, c)
  /\ offset <= c.threshold /\ el # Null /\ OffsetParent(el, g) # Null

\* The forward container-scrolled branch reads el.scrollHeight: a TypeError
\* if el is null (parentNode, the ref's value, is never null).
P0_raises(c, el) == ~c.useWindow /\ ~c.isReverse /\ el = Null

P0_scrollListener(m, k, c, el, g) ==
  LET offset == P0_offset(m, c, el, g)
      trigger == P0_trigger(m, offset, c, el, g)
      m1 == IF trigger /\ c.isReverse
              THEN [m EXCEPT !.beforeSizeRef =
                      [scrollHeight |-> g.elScrollHeight, scrollTop |-> offset]]
              ELSE m
      m2 == IF trigger /\ c.loadMore # NoFn
              THEN [m1 EXCEPT !.pageLoadedRef = @ + 1, !.isLoadMoreRef = TRUE]
              ELSE m1
  IN IF P0_raises(c, el)
       THEN [m EXCEPT !.checks =
               Append(@, RaisedCheck(k, c, g, m.pageLoadedRef))]
       ELSE [m2 EXCEPT !.checks =
               Append(@, Check(k, offset, c, g, trigger, m.pageLoadedRef,
                               m.listeners))]

P0_attachScrollListener(m, k) ==
  [m EXCEPT !.listeners =
     @ \cup {Listener("mousewheel", m.scrollContainerRef, k)}
       \cup ScrollListeners(m.scrollContainerRef, k)]

P0_detachScrollListener(m, k) ==
  [m EXCEPT !.listeners =
     @ \ ({Listener("mousewheel", m.scrollContainerRef, k)}
            \cup ScrollListeners(m.scrollContainerRef, k))]

\* useEffect(..., [pageStart])
P0_effectPageStart(m, k, c, el, g) ==
  LET parentElement == P0_getParentElement(c, el)
      m1 == [m EXCEPT !.pageLoadedRef =
               IF c.pageStart = -1 THEN 0 ELSE c.pageStart]
      m2 == IF c.useWindow = FALSE /\ parentElement # Null
              THEN [m1 EXCEPT !.scrollContainerRef = parentElement] ELSE m1
      m3 == P0_attachScrollListener(m2, k)
  IN IF c.initialLoad THEN P0_scrollListener(m3, k, c, el, g) ELSE m3

\* A compensation that leaves out the offset taken at the trigger; C12
\* distinguishes it from the code's.
P0_effectCompensation_noOffset(m, c, el, g) ==
  IF c.isReverse /\ m.isLoadMoreRef
    THEN [m EXCEPT
            !.writes = Append(@,
              [target |-> m.scrollContainerRef, read |-> g.elScrollHeight,
               value |-> g.elScrollHeight - m.beforeSizeRef.scrollHeight]),
            !.isLoadMoreRef = FALSE]
    ELSE m

\* useEffect(...) without dependencies: the reverse-mode compensation.  Both
\* branches (scrollTo, or the scrollTop assignment) set the same position;
\* read is the container's scroll height the effect read.
P0_effectCompensation(m, c, el, g) ==
  IF c.isReverse /\ m.isLoadMoreRef
    THEN [m EXCEPT
            !.writes = Append(@,
              [target |-> m.scrollContainerRef, read |-> g.elScrollHeight,
               value |-> g.elScrollHeight - m.beforeSizeRef.scrollHeight
                           + m.beforeSizeRef.scrollTop]),
            !.isLoadMoreRef = FALSE]
    ELSE m

\* ------------------------------------------------- the instance's life cycle

DefaultProps ==
  [hasMore |-> FALSE, initialLoad |-> TRUE, isReverse |-> FALSE,
   pageStart |-> 0, threshold |-> DefaultThreshold, useWindow |-> TRUE,
   loader |-> TRUE, loadMore |-> NoFn, getScrollParent |-> "absent"]

\* What a closure's listeners and cleanups read of its props once the
\* render's own effects have run.
Captured(p) ==
  [useWindow |-> p.useWindow, isReverse |-> p.isReverse,
   threshold |-> p.threshold, loadMore |-> p.loadMore,
   getScrollParent |-> p.getScrollParent]

Init ==
  /\ impl \in Impls
  /\ phase = "init"
  /\ nRenders = 0
  /\ props = DefaultProps
  /\ closures = [k \in Closures |-> Captured(DefaultProps)]
  /\ effClosure = 0
  /\ scrollComponentRef = Null
  /\ listeners = {}
  /\ pageLoaded = [k \in Closures |-> 0]
  /\ isLoadMore = [k \in Closures |-> FALSE]
  /\ pageLoadedRef = 0
  /\ isLoadMoreRef = FALSE
  /\ beforeSizeRef = [scrollHeight |-> 0, scrollTop |-> 0]
  /\ scrollContainerRef = Window
  /\ last = [op |-> "init", reinit |-> FALSE, checks |-> <<>>, writes |-> <<>>]
  /\ lastArg = 0
  /\ snapshot = NoSnap

\* The closures something still refers to: those with a registered listener,
\* the one whose [pageStart] cleanup is pending and, in IS.tsx, the current
\* one (its every-render cleanup is pending).  The others can never run
\* again and are forgotten.
Live(ls, eff, cur) ==
  {l.fn : l \in ls} \cup {eff} \cup (IF impl = "IS" THEN {cur} ELSE {})

\* The state a step leaves: the machine m the handlers produced, with cl the
\* closure table, eff the closure of the last [pageStart] effect and cur the
\* current closure.
Commit(m, cl, eff, cur, op, reinit) ==
  LET live == Live(m.listeners, eff, cur) IN
  /\ closures' = [k \in Closures |->
                    IF k \in live THEN cl[k] ELSE Captured(DefaultProps)]
  /\ effClosure' = eff
  /\ listeners' = m.listeners
  /\ pageLoaded' = [k \in Closures |-> IF k \in live THEN m.pageLoaded[k] ELSE 0]
  /\ isLoadMore' =
       [k \in Closures |-> IF k \in live THEN m.isLoadMore[k] ELSE FALSE]
  /\ pageLoadedRef' = m.pageLoadedRef
  /\ isLoadMoreRef' = m.isLoadMoreRef
  /\ beforeSizeRef' = m.beforeSizeRef
  /\ scrollContainerRef' = m.scrollContainerRef
  /\ last' = [op |-> op, reinit |-> reinit, checks |-> m.checks,
              writes |-> m.writes]
  /\ lastArg' = LET args == Args(m.checks) IN
                IF args # <<>> THEN args[Len(args)]
                ELSE IF reinit \/ op = "unmount" THEN 0 ELSE lastArg
  /\ snapshot' = IF impl # "part_000" \/ m.writes # <<>> \/ op = "unmount"
                   THEN NoSnap ELSE SnapAfter(m.checks, snapshot)

\* The instance is gone after unmount: its props are no more, and its refs
\* can be reached only through a listener that is still registered.
Forget(m) ==
  IF m.listeners = {}
    THEN [m EXCEPT !.pageLoadedRef = 0, !.isLoadMoreRef = FALSE,
                   !.beforeSizeRef = [scrollHeight |-> 0, scrollTop |-> 0],
                   !.scrollContainerRef = Window]
    ELSE m

\* Props a re-render may bring: those of the previous render with at most
\* one of the props the caller drives changed.
NextProps(p) ==
  {p}
  \cup {[p EXCEPT !.hasMore = ~@], [p EXCEPT !.isReverse = ~@],
        [p EXCEPT !.useWindow = ~@]}
  \cup {[p EXCEPT !.pageStart = n] : n \in PageStarts}
  \cup {[p EXCEPT !.threshold = t] : t \in Thresholds}
  \cup {[p EXCEPT !.loadMore = f] : f \in Callbacks \cup {NoFn}}

\* IS.tsx: the first render and its effects.
IS_Mount(p, g) ==
  /\ impl = "IS" /\ phase = "init"
  /\ LET k == 1
         cl == [closures EXCEPT ![k] = Captured(p)]
         m1 == IS_effectPageStart(Machine, k, p, "el", g)
         m2 == IS_effectEveryRender(m1, k, p, "el", g)
     IN Commit(m2, cl, k, k, "mount", TRUE)
  /\ phase' = "mounted" /\ nRenders' = 1 /\ props' = p
  /\ scrollComponentRef' = "el"
  /\ UNCHANGED impl

\* IS.tsx: a later render.  The cleanups of the effects that re-run come
\* first (the [pageStart] one only when pageStart changed), then the effects.
IS_Rerender(p, g) ==
  /\ impl = "IS" /\ phase = "mounted" /\ nRenders < MaxRenders
  /\ LET k == nRenders + 1
         el == scrollComponentRef
         reinit == p.pageStart # props.pageStart
         cl == [closures EXCEPT ![k] = Captured(p)]
         m1 == IF reinit
                 THEN IS_cleanup(Machine, effClosure, closures[effClosure], el)
                 ELSE Machine
         m2 == IS_cleanup(m1, nRenders, closures[nRenders], el)
         m3 == IF reinit THEN IS_effectPageStart(m2, k, p, el, g) ELSE m2
         m4 == IS_effectEveryRender(m3, k, p, el, g)
     IN Commit(m4, cl, IF reinit THEN k ELSE effClosure, k, "render", reinit)
  /\ nRenders' = nRenders + 1 /\ props' = p
  /\ UNCHANGED <<impl, phase, scrollComponentRef>>

\* IS.tsx: unmount runs both cleanups, then the ref is cleared.
IS_Unmount ==
  /\ impl = "IS" /\ phase = "mounted"
  /\ LET el == scrollComponentRef
         m1 == IS_cleanup(Machine, effClosure, closures[effClosure], el)
         m2 == IS_cleanup(m1, nRenders, closures[nRenders], el)
     IN Commit(Forget(m2), closures, 0, 0, "unmount", FALSE)
  /\ phase' = "unmounted" /\ scrollComponentRef' = Null
  /\ props' = DefaultProps
  /\ UNCHANGED <<impl, nRenders>>

\* part_000: the first render and its effects.
P0_Mount(p, g) ==
  /\ impl = "part_000" /\ phase = "init"
  /\ LET k == 1
         cl == [closures EXCEPT ![k] = Captured(p)]
         m1 == P0_effectPageStart(Machine, k, p, "el", g)
         m2 == P0_effectCompensation(m1, p, "el", g)
     IN Commit(m2, cl, k, k, "mount", TRUE)
  /\ phase' = "mounted" /\ nRenders' = 1 /\ props' = p
  /\ scrollComponentRef' = "el"
  /\ UNCHANGED impl

\* part_000: a later render.
P0_Rerender(p, g) ==
  /\ impl = "part_000" /\ phase = "mounted" /\ nRenders < MaxRenders
  /\ LET k == nRenders + 1
         el == scrollComponentRef
         reinit == p.pageStart # props.pageStart
         cl == [closures EXCEPT ![k] = Captured(p)]
         m1 == IF reinit THEN P0_detachScrollListener(Machine, effClosure)
                         ELSE Machine
         m2 == IF reinit THEN P0_effectPageStart(m1, k, p, el, g) ELSE m1
         m3 == P0_effectCompensation(m2, p, el, g)
     IN Commit(m3, cl, IF reinit THEN k ELSE effClosure, k, "render", reinit)
  /\ nRenders' = nRenders + 1 /\ props' = p
  /\ UNCHANGED <<impl, phase, scrollComponentRef>>

\* part_000: unmount runs the [pageStart] effect's cleanup.
P0_Unmount ==
  /\ impl = "part_000" /\ phase = "mounted"
  /\ Commit(Forget(P0_detachScrollListener(Machine, effClosure)), closures,
            0, 0, "unmount", FALSE)
  /\ phase' = "unmounted" /\ scrollComponentRef' = Null
  /\ props' = DefaultProps
  /\ UNCHANGED <<impl, nRenders>>

\* ------------------------------------------------------------- DOM events

\* The listener l called for an event: scrollListener of l's closure for
\* scroll and resize; mousewheelListener changes nothing of the widget.
CallListener(m, l, g) ==
  IF l.type = "mousewheel" THEN m
  ELSE IF impl = "IS"
    THEN IS_scrollListener(m, l.fn, closures[l.fn], scrollComponentRef, g)
    ELSE P0_scrollListener(m, l.fn, closures[l.fn], scrollComponentRef, g)

\* The listeners registered for the event when the dispatch began are called
\* in the order they were added (older closures first), one removed
\* meanwhile is skipped.
RECURSIVE DispatchFrom(_, _, _, _, _)
DispatchFrom(m, type, target, g, k) ==
  IF k > MaxRenders THEN m
  ELSE LET l == Listener(type, target, k)
           m1 == IF l \in listeners /\ l \in m.listeners
                   THEN CallListener(m, l, g) ELSE m
       IN DispatchFrom(m1, type, target, g, k + 1)

PageCounters ==
  {pageLoaded[k] : k \in Closures} \cup {pageLoadedRef}

\* The browser dispatches a scroll event on a target, or a resize event on
\* the window (the only target browsers send resize to).
DispatchEvent(type, target, g) ==
  /\ phase # "init"
  /\ type \in {"scroll", "resize"}
  /\ type = "resize" => target = Window
  /\ \A n \in PageCounters : n < MaxPage
  /\ Commit(DispatchFrom(Machine, type, target, g, 1), closures, effClosure,
            nRenders, "event", FALSE)
  /\ UNCHANGED <<impl, phase, nRenders, props, scrollComponentRef>>

\* The browser dispatches a mousewheel event on a target; the listeners
\* called read no geometry.
DispatchMousewheel(target) ==
  /\ phase # "init"
  /\ Commit(DispatchFrom(Machine, "mousewheel", target, Scene(250, TRUE), 1),
            closures, effClosure, nRenders, "event", FALSE)
  /\ UNCHANGED <<impl, phase, nRenders, props, scrollComponentRef>>

Next ==
  \/ \E p \in MountProps, g \in Geometries : IS_Mount(p, g)
  \/ \E p \in NextProps(props), g \in Geometries : IS_Rerender(p, g)
  \/ IS_Unmount
  \/ \E p \in MountProps, g \in Geometries : P0_Mount(p, g)
  \/ \E p \in NextProps(props), g \in Geometries : P0_Rerender(p, g)
  \/ P0_Unmount
  \/ \E type \in EventTypes, target \in Targets, g \in Geometries :
       DispatchEvent(type, target, g)
  \/ \E target \in Targets : DispatchMousewheel(target)

Spec == Init /\ [][Next]_vars

\* ------------------------------------- scrollListener without its container

\* scrollListener applied on its own: the container ref holds el (null, or
\* an element with no parent), the closure holds the props p, the page
\* counter is what the [pageStart] effect set, part_000's scrollContainerRef
\* holds t, and the geometry is g.
AbsentElements == {Null, Detached}

FreshMachine ==
  [listeners |-> {}, pageLoaded |-> [k \in Closures |-> 0],
   isLoadMore |-> [k \in Closures |-> FALSE], pageLoadedRef |-> 0,
   isLoadMoreRef |-> FALSE,
   beforeSizeRef |-> [scrollHeight |-> 0, scrollTop |-> 0],
   scrollContainerRef |-> Window, checks |-> <<>>, writes |-> <<>>]

RunScrollListener(p, el, t, g) ==
  /\ phase = "init"
  /\ t = Other => p.getScrollParent = "returnsOther"
  /\ impl = "IS" => t = Window
  /\ LET start == IF p.pageStart = -1 THEN 0 ELSE p.pageStart
         m0 == [FreshMachine EXCEPT !.pageLoaded[1] = start,
                                    !.pageLoadedRef = start,
                                    !.scrollContainerRef = t]
         cl == [k \in Closures |-> Captured(IF k = 1 THEN p ELSE DefaultProps)]
         m1 == IF impl = "IS" THEN IS_scrollListener(m0, 1, p, el, g)
                              ELSE P0_scrollListener(m0, 1, p, el, g)
     IN Commit(m1, cl, 1, 1, "check", FALSE)
  /\ phase' = "checked" /\ nRenders' = 1 /\ props' = p
  /\ scrollComponentRef' = el
  /\ UNCHANGED impl

NextAbsent ==
  \E p \in MountProps, el \in AbsentElements, t \in Targets, g \in Geometries :
    RunScrollListener(p, el, t, g)

SpecAbsent == Init /\ [][NextAbsent]_vars

\* ------------------------------------------------------------ the claims

\* The loadMore arguments of the last step, in order, and their number.
Calls == Args(last.checks)
NumCalls == Len(Calls)

\* The page counter the next trigger of the current render increments.
PageCounter == IF impl = "IS" THEN pageLoaded[nRenders] ELSE pageLoadedRef

\* The counter value a (re-)initialization with props p is to set.
StartPage(p) == IF p.pageStart = -1 THEN 0 ELSE p.pageStart

\* The target the widget's listeners belong on.
ScrollTarget ==
  IF impl = "IS"
    THEN IF props.useWindow THEN Window
         ELSE IS_getParentElement(props, scrollComponentRef)
    ELSE scrollContainerRef

RegisteredTypes(target) == {l.type : l \in {x \in listeners : x.target = target}}

\* The closure whose listeners serve the current render, and whether it
\* captured the window/forward configuration with a callback.
ListeningClosure == IF impl = "IS" THEN nRenders ELSE effClosure
ForwardWindow(c) == c.useWindow /\ ~c.isReverse /\ c.loadMore # NoFn

\* C1: with useWindow=true, isReverse=false and loadMore supplied, an event
\* causes at most one loadMore invocation, and a trigger check it runs at an
\* offset <= threshold with the container visible makes it cause exactly one,
\* with the page counter's value before the event plus 1 as argument.
C1_OneLoadPerEvent ==
  (/\ phase = "mounted" /\ last.op = "event"
   /\ ForwardWindow(props) /\ ForwardWindow(closures[ListeningClosure]))
  => /\ NumCalls <= 1
     /\ \A i \in DOMAIN last.checks :
          LET c == last.checks[i] IN
          (c.offset <= c.threshold /\ c.visible)
            => NumCalls = 1 /\ c.called /\ c.arg = c.before + 1

\* C2: while the most recently committed render has hasMore=false, no step
\* (mount, re-initialization, scroll, resize or wheel event) invokes loadMore.
C2_NoLoadWithoutHasMore ==
  (phase = "mounted" /\ ~props.hasMore) => NumCalls = 0

\* C3: once the effects of a render with hasMore=false have run, no listener
\* of the widget is registered on any target and the rendered children do
\* not contain the loader.
C3_NoListenersWithoutHasMore ==
  (phase = "mounted" /\ ~props.hasMore)
  => /\ listeners = {}
     /\ \A i \in DOMAIN childrenArray(props) : childrenArray(props)[i] # "loader"

\* C4: between two (re-)initializations the page counter never decreases and
\* the arguments passed to loadMore are strictly increasing, also across a
\* re-render.
C4_PageCounterMonotonic ==
  [][(phase = "mounted" /\ phase' = "mounted" /\ ~last'.reinit)
     => /\ PageCounter' >= PageCounter
        /\ \A i \in DOMAIN Calls' :
             Calls'[i] > (IF i = 1 THEN lastArg ELSE Calls'[i - 1])]_vars

\* C5: after unmount no scroll, resize or wheel listener of the widget is
\* registered on any target, and no event invokes loadMore.
C5_UnmountRemovesListeners ==
  phase = "unmounted" => listeners = {} /\ NumCalls = 0

\* C6: a re-render that changes hasMore from true to false leaves none of the
\* three listener types registered; one that changes it back to true
\* (pageStart unchanged) registers all three on the scroll target (scroll and
\* resize unless a trigger of that very step removed them) and, if
\* initialLoad is true, runs a trigger check in its effects.
C6_HasMoreToggle ==
  [][(phase = "mounted" /\ last'.op = "render"
      /\ props'.pageStart = props.pageStart)
     => /\ (props.hasMore /\ ~props'.hasMore) => listeners' = {}
        /\ (~props.hasMore /\ props'.hasMore)
             => /\ "mousewheel" \in RegisteredTypes(ScrollTarget)'
                /\ \/ {"scroll", "resize"} \subseteq RegisteredTypes(ScrollTarget)'
                   \/ \E i \in DOMAIN last'.checks : last'.checks[i].trigger
                /\ props'.initialLoad => last'.checks # <<>>]_vars

\* C7: a (re-)initialization sets the page counter to 0 for pageStart = -1 and
\* to pageStart otherwise, and the first loadMore invocation after it
\* receives that value plus 1.
C7_PageStartReset ==
  [][/\ last'.reinit
          => PageCounter' = StartPage(props') + Len(Calls')
     /\ (phase' = "mounted" /\ Calls' # <<>> /\ (last'.reinit \/ lastArg = 0))
          => Calls'[1] = StartPage(props') + 1]_vars

\* C8: a mount with hasMore=true runs exactly one trigger check if initialLoad
\* is true (so at most one loadMore invocation, with the start page plus 1),
\* and with initialLoad=false neither the mount nor a later render runs one.
C8_InitialLoadOnce ==
  /\ (last.op = "mount" /\ props.hasMore /\ props.initialLoad)
       => /\ Len(last.checks) = 1
          /\ NumCalls <= 1
          /\ \A i \in DOMAIN Calls : Calls[i] = StartPage(props) + 1
  /\ (last.op \in {"mount", "render"} /\ ~props.initialLoad)
       => last.checks = <<>>

\* C9: there is no debouncing beyond one trigger per event: after a trigger
\* has invoked loadMore the scroll listener is still registered on the scroll
\* target (hasMore being true), and the next invocation, with no
\* re-initialization in between, receives the next page number.
C9_NoDebounce ==
  [][/\ (phase' = "mounted" /\ props'.hasMore /\ Calls' # <<>>)
          => "scroll" \in RegisteredTypes(ScrollTarget)'
     /\ (phase' = "mounted" /\ ~last'.reinit /\ lastArg > 0 /\ Calls' # <<>>)
          => Calls'[1] = lastArg + 1]_vars

\* C10: a trigger check whose closure holds a loadMore callback invokes it if
\* and only if the offset it computed is <= threshold and the container is
\* visible.
C10_TriggerCondition ==
  \A i \in DOMAIN last.checks :
    LET c == last.checks[i] IN
    c.loadMore # NoFn => (c.called <=> (c.offset <= c.threshold /\ c.visible))

\* C11: in every reachable state each of the three event types has at most
\* one handler of the widget registered, all registered handlers sit on one
\* target, and while the widget is mounted that target is the resolved scroll
\* target (no handler is left behind on a target used before).
C11_SingleRegistration ==
  /\ \A t \in EventTypes : Cardinality({l \in listeners : l.type = t}) <= 1
  /\ \A l1, l2 \in listeners : l1.target = l2.target
  /\ phase = "mounted" => \A l \in listeners : l.target = ScrollTarget

\* The snapshot a scroll write of the step being taken has at hand: that of
\* the last reverse-mode trigger up to and including the step's own checks.
SnapAtWrite == SnapAfter(last'.checks, snapshot)

\* C12: in part_000, once a trigger has run with isReverse=true, the scroll
\* write of a render effect sets exactly (scroll height the effect reads) -
\* (scroll height at the trigger) + (offset computed at the trigger); the
\* render effect of the first render with isReverse=true after such a trigger
\* that invoked loadMore makes that write, once; a write clears the pending
\* flag; and the render following a write step makes no write unless it runs
\* a trigger itself.
C12_ReverseCompensation ==
  [][impl = "part_000"
     => /\ SnapAtWrite # NoSnap
             => \A i \in DOMAIN last'.writes :
                  last'.writes[i].value =
                    last'.writes[i].read - SnapAtWrite.scrollHeight
                      + SnapAtWrite.offset
        /\ (last'.op \in {"mount", "render"} /\ props'.isReverse
            /\ SnapAtWrite # NoSnap /\ SnapAtWrite.called)
             => Len(last'.writes) = 1
        /\ last'.writes # <<>> => ~isLoadMoreRef'
        /\ (last.writes # <<>> /\ last'.op = "render"
            /\ \A i \in DOMAIN last'.checks : ~last'.checks[i].trigger)
             => last'.writes = <<>>]_vars

\* A re-render has compensated for a reverse-mode trigger of an earlier step,
\* the content having grown since the trigger.
C12_Witness ==
  /\ impl = "part_000" /\ last.op = "render" /\ last.checks = <<>>
  /\ Len(last.writes) = 1 /\ ~isLoadMoreRef
  /\ beforeSizeRef.scrollHeight > 0
  /\ last.writes[1].read > beforeSizeRef.scrollHeight
  /\ last.writes[1].value =
       last.writes[1].read - beforeSizeRef.scrollHeight + beforeSizeRef.scrollTop

\* C13: in part_000, every write of the scroll position is preceded, since
\* the previous write or the mount, by a trigger that ran with isReverse=true,
\* and the write uses the geometry that trigger saw.
C13_WriteOnlyAfterReverseTrigger ==
  [][impl = "part_000"
     => \A i \in DOMAIN last'.writes :
          /\ SnapAtWrite # NoSnap
          /\ last'.writes[i].value =
               last'.writes[i].read - SnapAtWrite.scrollHeight
                 + SnapAtWrite.offset]_vars

\* The element a container-scrolled widget scrolls in: the one the caller's
\* getScrollParent returns, else the container's parent node.
ScrollableAncestor(p) ==
  IF p.getScrollParent = "returnsOther" THEN Other ELSE Parent

\* The offset of each mode, from the geometry g.
ExpectedOffset(useWin, isRev, ancestor, g) ==
  IF useWin
    THEN IF isRev THEN g.scrollY
         ELSE g.elOffsetTop + (IF g.visible THEN g.parentOffsetTop ELSE 0)
                + g.elOffsetHeight - g.scrollY - g.innerHeight
    ELSE IF isRev THEN ScrollTopOf(ancestor, g)
         ELSE g.elScrollHeight - ScrollTopOf(ancestor, g)
                - ClientHeightOf(ancestor, g)

\* C14: the offset a trigger check compares with threshold is, for the
\* useWindow and isReverse the check runs with: window/forward, the sum of
\* offsetTop over the container's offsetParent chain plus the container's
\* height minus the window's scrollY and innerHeight; container/forward, the
\* container's scrollHeight minus the scrollable ancestor's scrollTop and
\* clientHeight; window/reverse, the window's scrollY; container/reverse, the
\* scrollable ancestor's scrollTop.
C14_OffsetPerMode ==
  phase = "mounted"
  => \A i \in DOMAIN last.checks :
       LET c == last.checks[i] IN
       c.offset = ExpectedOffset(c.useWindow, c.isReverse,
                                 ScrollableAncestor(props), c.scene)

\* A trigger check has run in container/forward mode against an override
\* element, whose scroll position is not the parent node's.
C14_Witness ==
  /\ phase = "mounted" /\ last.checks # <<>>
  /\ LET c == last.checks[1] IN
     /\ ~c.useWindow /\ ~c.isReverse
     /\ ScrollableAncestor(props) = Other
     /\ c.offset = c.scene.elScrollHeight - c.scene.otherScrollTop
                     - c.scene.otherClientHeight
     /\ c.offset # c.scene.elScrollHeight - c.scene.parentScrollTop
                     - c.scene.parentClientHeight

\* The scroll target the configuration p resolves to.
ResolvedTarget(p) == IF p.useWindow THEN Window ELSE ScrollableAncestor(p)

\* C15: a (re-)initialization with hasMore=true registers its listeners on
\* the target resolved from the props of that render (the window if useWindow,
\* else the getScrollParent element if supplied, else the parent node) and on
\* no other: the wheel listener, and the scroll and resize listeners (unless
\* a trigger of that very step removed them).
C15_ResolveTarget ==
  [][(phase' = "mounted" /\ last'.reinit /\ props'.hasMore)
     => /\ \A l \in listeners' :
             l.fn = nRenders' => l.target = ResolvedTarget(props')
        /\ Listener("mousewheel", ResolvedTarget(props'), nRenders')
             \in listeners'
        /\ \/ ScrollListeners(ResolvedTarget(props'), nRenders')
                \subseteq listeners'
           \/ \E i \in DOMAIN last'.checks : last'.checks[i].trigger]_vars

\* C16: a trigger check run while the container ref is null, or holds an
\* element with no parent, raises no error and invokes no loadMore, whatever
\* useWindow and isReverse are; for a null container the window/forward
\* offset (calculateOffset, calculateTopPosition) is 0.
C16_AbsentContainer ==
  phase = "checked"
  => \A i \in DOMAIN last.checks :
       LET c == last.checks[i] IN
       /\ ~c.raised
       /\ ~c.called
       /\ (scrollComponentRef = Null /\ c.useWindow /\ ~c.isReverse)
            => c.offset = 0

\* C17: an event whose trigger checks run without a loadMore callback, the
\* trigger condition being satisfied in one of them, invokes nothing and
\* leaves the page counter, the pending flag and the registered listeners as
\* they were.
C17_NoCallbackNoChange ==
  [][(/\ last'.op = "event"
      /\ \E i \in DOMAIN last'.checks : last'.checks[i].trigger
      /\ \A i \in DOMAIN last'.checks : last'.checks[i].loadMore = NoFn)
     => /\ \A i \in DOMAIN last'.checks : ~last'.checks[i].called
        /\ listeners' = listeners
        /\ pageLoaded' = pageLoaded /\ pageLoadedRef' = pageLoadedRef
        /\ isLoadMore' = isLoadMore /\ isLoadMoreRef' = isLoadMoreRef]_vars

\* C18: in IS.tsx a wheel listener is removed from the target it was
\* registered on, also when getScrollParent returns an element other than the
\* parent node: the only wheel listener ever registered is that of the
\* current render of a mounted widget (every cleanup removed the earlier
\* ones, and unmount the last).
C18_WheelRemovedWhereRegistered ==
  impl = "IS"
  => \A l \in listeners :
       l.type = "mousewheel" => (phase = "mounted" /\ l.fn = nRenders)

\* C19: in IS.tsx, whenever a trigger check invokes loadMore, no scroll or
\* resize listener of the widget is registered at that moment.
C19_DetachedBeforeLoadMore ==
  impl = "IS"
  => \A i \in DOMAIN last.checks :
       last.checks[i].called => ~last.checks[i].listening

\* An event has reached a registered scroll listener of IS.tsx, which invoked
\* loadMore after removing the scroll and resize listeners.
C19_Witness ==
  /\ impl = "IS" /\ last.op = "event" /\ Len(last.checks) = 1
  /\ last.checks[1].called /\ ~last.checks[1].listening
  /\ "mousewheel" \in RegisteredTypes(ScrollTarget)
  /\ "scroll" \notin RegisteredTypes(ScrollTarget)

\* C20: in part_000 the trigger check an event runs uses the useWindow,
\* isReverse, threshold and loadMore of the most recently committed render.
C20_EventUsesCurrentProps ==
  (impl = "part_000" /\ phase = "mounted" /\ last.op = "event")
  => \A i \in DOMAIN last.checks :
       LET c == last.checks[i] IN
       /\ c.useWindow = props.useWindow /\ c.isReverse = props.isReverse
       /\ c.threshold = props.threshold /\ c.loadMore = props.loadMore

====
